---- MODULE Spec2Model ----
(***************************************************************************)
(* Model of the native runtime bridge of src/run.py: the dlopen/dlsym/     *)
(* dlclose wrapper (DLError, dlsym_factory), the PyNeApple scope           *)
(* (__enter__/__exit__ over an ExitStack), message dispatch (send_message, *)
(* safe_new_object) and closure construction (ObjCBlock).                  *)
(*                                                                         *)
(* The foreign side (the dynamic linker and the Objective-C runtime) is    *)
(* the environment: every value it returns is an input chosen with \E.     *)
(* Pointers are naturals, 0 is the null pointer.                           *)
(***************************************************************************)
EXTENDS Integers, Sequences, FiniteSets, TLC

(* ------------------------------ bounds -------------------------------- *)
\* non-null pointer values the foreign runtime may hand back: 1..MaxPtr
MaxPtr == 2
\* release/close registrations the scope body may add to the two of __enter__
MaxBodyRegs == 2
\* libraries the body may open besides libobjc and libSystem
MaxExtraLibs == 1
\* values a dispatched message may return: 0..MaxRet
MaxRet == 1
\* successful dlopen calls per library in a run of the dlsym_factory contexts
MaxOpens == 1

(* ----------------------- the program's constants ----------------------- *)
\* handle the linker returns for /usr/lib/libobjc.A.dylib when it opens
LIBOBJC == 1
\* handle the linker returns for /usr/lib/libSystem.B.dylib when it opens
LIBSYSTEM == 2
\* f |= 1 << 30
BLOCK_HAS_SIGNATURE == 1073741824

Ptrs == 0..MaxPtr
NonNull == 1..MaxPtr
Rets == 0..MaxRet
ExtraLibs == (LIBSYSTEM + 1)..(LIBSYSTEM + MaxExtraLibs)
Libs == {LIBOBJC, LIBSYSTEM} \cup ExtraLibs

\* the symbols __enter__ resolves, in the order it resolves them
EnterSymbols ==
  << [lib |-> LIBSYSTEM, name |-> "_NSConcreteMallocBlock"],
     [lib |-> LIBOBJC, name |-> "class_addProtocol"],
     [lib |-> LIBOBJC, name |-> "class_addMethod"],
     [lib |-> LIBOBJC, name |-> "class_addIvar"],
     [lib |-> LIBOBJC, name |-> "class_conformsToProtocol"],
     [lib |-> LIBOBJC, name |-> "objc_getProtocol"],
     [lib |-> LIBOBJC, name |-> "objc_allocateClassPair"],
     [lib |-> LIBOBJC, name |-> "objc_registerClassPair"],
     [lib |-> LIBOBJC, name |-> "objc_getClass"],
     [lib |-> LIBOBJC, name |-> "objc_msgSend"],
     [lib |-> LIBOBJC, name |-> "objc_msgSendSuper"],
     [lib |-> LIBOBJC, name |-> "object_getClass"],
     [lib |-> LIBOBJC, name |-> "object_getInstanceVariable"],
     [lib |-> LIBOBJC, name |-> "object_setInstanceVariable"],
     [lib |-> LIBOBJC, name |-> "sel_registerName"] >>

NumSyms == Len(EnterSymbols)

(* ------------------------- foreign call records ------------------------ *)
\* one foreign call: the entry point, its first two argument words, the
\* selector (message sends only) and the value the foreign side returned
Call(fn, a, b, sel, ret) == [fn |-> fn, a |-> a, b |-> b, sel |-> sel, ret |-> ret]

NoErr == [type |-> "none", fname |-> ""]
Err(type, fname) == [type |-> type, fname |-> fname]

\* Python's `not x` on a C int, as an integer truth value
PyNot(x) == IF x = 0 THEN 1 ELSE 0

(* ------------------------------- DLError ------------------------------- *)
\* mutant of DLError.handle: the null check is missing
DLError_handle_unchecked(ret, fname) ==
  [raised |-> FALSE, value |-> ret, err |-> NoErr]

\* DLError.handle: raise when the result is falsy, else hand it back
DLError_handle(ret, fname) ==
  IF ret = 0 THEN [raised |-> TRUE, value |-> 0, err |-> Err("DLError", fname)]
             ELSE [raised |-> FALSE, value |-> ret, err |-> NoErr]

\* debug_log(msg, ret=x) returns ret
debug_log(msg, ret) == ret

\* success_handle of the resolver: c_void_p(debug_log(..., ret=x))
success_handle(x) == debug_log("dlsym", x)

\* mutant of DLError.wrap: the raw result goes to success_handle unchecked
DLError_wrap_unchecked(fnret, fname) ==
  [raised |-> FALSE, value |-> success_handle(fnret), err |-> NoErr]

\* DLError.wrap: success_handle(DLError.handle(fn(...), fname, ..., errfn()))
DLError_wrap(fnret, fname) ==
  LET r == DLError_handle(fnret, fname)
  IN IF r.raised THEN r ELSE [r EXCEPT !.value = success_handle(r.value)]

\* the foreign calls one resolver call makes: dlsym, then dlerror (the
\* arguments of DLError.handle are evaluated before it is entered)
ResolverCalls(h, name, addr) ==
  << Call("dlsym", h, 0, name, addr), Call("dlerror", 0, 0, "", 0) >>

(* ----------------------------- send_message ---------------------------- *)
\* sel_registerName interns a name; the selector is identified by its name
sel_registerName(sel_name) == sel_name

\* mutant of send_message: objc_super is packed with the receiver's class
\* in place of the superclass fetched from it
send_message_class_as_super(obj, sel_name, is_super, env) ==
  LET sel == sel_registerName(sel_name)
      c0 == << Call("sel_registerName", 0, 0, sel_name, 0) >>
      c1 == IF is_super
            THEN << Call("object_getClass", obj, 0, "", env.cls),
                    Call("sel_registerName", 0, 0, "superclass", 0),
                    Call("objc_msgSend", env.cls, 0, sel_registerName("superclass"), env.sup),
                    Call("objc_msgSendSuper", obj, env.cls, sel, env.rSuper) >>
            ELSE << >>
  IN [calls |-> c0 \o c1 \o << Call("objc_msgSend", obj, 0, sel, env.rOrd) >>,
      ret |-> env.rOrd]

\* env: what the runtime returns during one send_message:
\*   cls    object_getClass(obj)
\*   sup    the reply to the `superclass` message
\*   rSuper the value objc_msgSendSuper returns
\*   rOrd   the value objc_msgSend returns
RECURSIVE send_message(_, _, _, _)
send_message(obj, sel_name, is_super, env) ==
  LET sel == sel_registerName(sel_name)
      c0 == << Call("sel_registerName", 0, 0, sel_name, 0) >>
      inner == send_message(env.cls, "superclass", FALSE, [env EXCEPT !.rOrd = env.sup])
      c1 == IF is_super
            THEN << Call("object_getClass", obj, 0, "", env.cls) >>
                 \o inner.calls
                 \o << Call("objc_msgSendSuper", obj, inner.ret, sel, env.rSuper) >>
            ELSE << >>
  IN [calls |-> c0 \o c1 \o << Call("objc_msgSend", obj, 0, sel, env.rOrd) >>,
      ret |-> env.rOrd]

\* an environment for a plain (non-super) send that returns r
PlainEnv(r) == [cls |-> 0, sup |-> 0, rSuper |-> 0, rOrd |-> r]

(* --------------------------- safe_new_object --------------------------- *)
safe_new_object(cls, init_name, allocRet, initRet) ==
  LET a == send_message(cls, "alloc", FALSE, PlainEnv(allocRet))
      obj1 == a.ret
      i == send_message(obj1, init_name, FALSE, PlainEnv(initRet))
      obj2 == i.ret
      r == send_message(obj2, "release", FALSE, PlainEnv(0))
  IN IF obj1 = 0
     THEN [calls |-> a.calls, ret |-> 0, err |-> Err("RuntimeError", "alloc")]
     ELSE IF obj2 = 0
          THEN [calls |-> a.calls \o i.calls \o r.calls, ret |-> 0,
                err |-> Err("RuntimeError", init_name)]
          ELSE [calls |-> a.calls \o i.calls, ret |-> obj2, err |-> NoErr]

(* ------------------------------ ObjCBlock ------------------------------ *)
\* Optional[bytes]: None, or a byte string of some length
NoSignature == [present |-> FALSE, len |-> 0]
Signature(n) == [present |-> TRUE, len |-> n]

\* Python truthiness of an Optional[bytes]
Truthy(signature) == signature.present /\ signature.len > 0

NoBlock == [built |-> FALSE, isa |-> 0, flags |-> 0, reserved |-> 0,
            invoke |-> 0, descHasSignature |-> FALSE, err |-> NoErr]

\* ObjCBlock.__init__
ObjCBlock(isa, cb, signature) ==
  [built |-> TRUE,
   isa |-> isa,
   flags |-> IF Truthy(signature) THEN BLOCK_HAS_SIGNATURE ELSE 0,
   reserved |-> 0,
   invoke |-> cb,
   descHasSignature |-> Truthy(signature),
   err |-> NoErr]

(* ------------------- release actions and their unwinding --------------- *)
\* an entry of the ExitStack: the exit of a dlsym_factory context
\* (kind "lib", target the handle) or a release_on_exit callback (kind
\* "release", target the object); id is the position of its registration
LibEntry(h, id) == [kind |-> "lib", target |-> h, id |-> id]
ReleaseEntry(obj, id) == [kind |-> "release", target |-> obj, id |-> id]

\* mutant of the `finally` of dlsym_factory: the handle is never closed
dlsym_factory_exit_noclose(h_lib, closeRet) ==
  [calls |-> << >>, err |-> NoErr]

\* the `finally` of dlsym_factory: dlclose, dlerror, then DLError.handle on
\* `not fn_dlclose(h_lib)`
dlsym_factory_exit(h_lib, closeRet) ==
  [calls |-> << Call("dlclose", h_lib, 0, "", closeRet), Call("dlerror", 0, 0, "", 0) >>,
   err |-> DLError_handle(PyNot(closeRet), "dlclose").err]

\* the callback release_on_exit registers: send_message(obj, b'release');
\* a callback that fails raises while marshalling the call, after the
\* selector was interned
release_callback(obj, failed) ==
  LET m == send_message(obj, "release", FALSE, PlainEnv(0))
  IN IF failed
     THEN [calls |-> SubSeq(m.calls, 1, 1), err |-> Err("CallbackError", "release")]
     ELSE [calls |-> m.calls, err |-> NoErr]

\* mutant of the unwinding order: first registered, first run
UnwindIndex_fifo(n, k) == k

\* the index of the entry that runs at position k of the unwinding of n entries
UnwindIndex(n, k) == n + 1 - k

\* ExitStack.__exit__ / ExitStack.close: run the entries last-registered
\* first; an entry that raises replaces the error in flight and the
\* unwinding goes on with the remaining entries
RECURSIVE ExitStack_exit(_, _, _, _)
ExitStack_exit(stk, fails, excIn, k) ==
  IF k > Len(stk)
  THEN [log |-> << >>, calls |-> << >>, err |-> excIn]
  ELSE LET i == UnwindIndex(Len(stk), k)
           e == stk[i]
           step == IF e.kind = "lib"
                   THEN dlsym_factory_exit(e.target, IF i \in fails THEN -1 ELSE 0)
                   ELSE release_callback(e.target, i \in fails)
           errAfter == IF step.err.type # "none" THEN step.err ELSE excIn
           rest == ExitStack_exit(stk, fails, errAfter, k + 1)
       IN [log |-> << e >> \o rest.log,
           calls |-> step.calls \o rest.calls,
           err |-> rest.err]

\* how many calls of entry point fn in a call log had first argument a / result r
CountArg(cs, fn, a) == Cardinality({i \in DOMAIN cs : cs[i].fn = fn /\ cs[i].a = a})
CountRet(cs, fn, r) == Cardinality({i \in DOMAIN cs : cs[i].fn = fn /\ cs[i].ret = r})

(* -------------------------------- state -------------------------------- *)
VARIABLES
  phase,        \* "new", "body" (scope entered), "exited", "enterFailed"
  init,         \* self._init
  stack,        \* self._stack: the pending release actions, oldest first
  registered,   \* every release action registered so far, oldest first
  exitLog,      \* the release actions run by the unwinding, in the order run
  opens,        \* per library handle: successful dlopen calls so far
  closes,       \* per library handle: dlclose calls so far
  resolvers,    \* handles whose resolver was handed to the caller
  p_NSConcreteMallocBlock, \* self.p_NSConcreteMallocBlock
  op,           \* the last operation and its arguments
  calls,        \* the foreign calls the last operation made, in order
  result,       \* the value the last operation returned (0: none)
  exc,          \* the error propagating in the scope body
  surfaced,     \* the error that left __enter__ / __exit__
  block,        \* the ObjCBlock the last operation built (NoBlock: none)
  fwks,         \* self._fwks: framework name -> registration of its resolver (0: absent)
  classState,   \* the runtime's classes: "none", "unregistered", "registered"
  classBefore,  \* the state the class of the last class operation was in when called
  dlerror_slot, \* the linker's process-global last-error slot
  diag,         \* the DLError the last dlsym_factory step raised, if any
  runloop,      \* the main run loop: "idle", "running", "stopped"
  navidg_cbdct  \* navidg_cbdct: the navigation pointers with a callback

\* the state of the class builder, of the linker's error channel and of the
\* run loop
classVars == << classState, classBefore >>
dlVars == << dlerror_slot, diag >>
loopVars == << runloop, navidg_cbdct >>
ext == << classVars, dlVars, loopVars >>

vars == << phase, init, stack, registered, exitLog, opens, closes, resolvers,
           p_NSConcreteMallocBlock, op, calls, result, exc, surfaced, block,
           fwks, ext >>

\* the framework names the body loads
FwkNames == {"Foundation", "WebKit"}
\* self._fwks = {}
NoFwks == [n \in FwkNames |-> 0]
\* what dlerror() can hand back: NULL ("null"), an empty C string ("empty")
\* or the text the failing call fn on arg left behind ("text")
Diagnostic(kind, fn, arg) == [kind |-> kind, fn |-> fn, arg |-> arg]
NullDiagnostic == Diagnostic("null", "", 0)
DiagKinds == {"null", "empty", "text"}
\* no DLError raised; a raised one carries fname, arg, err (made: what the
\* failing call itself left in the slot; text: the diagnostic part of str())
NoDiag == [raised |-> FALSE, fname |-> "", arg |-> 0, err |-> NullDiagnostic,
           made |-> NullDiagnostic, text |-> NullDiagnostic]

Op(name, a, sel, flag) == [name |-> name, a |-> a, sel |-> sel, flag |-> flag]

Init ==
  /\ phase = "new"
  /\ init = FALSE
  /\ stack = << >>
  /\ registered = << >>
  /\ exitLog = << >>
  /\ opens = [h \in Libs |-> 0]
  /\ closes = [h \in Libs |-> 0]
  /\ resolvers = {}
  /\ p_NSConcreteMallocBlock = 0
  /\ op = Op("__init__", 0, "", FALSE)
  /\ calls = << >>
  /\ result = 0
  /\ exc = NoErr
  /\ surfaced = NoErr
  /\ block = NoBlock
  /\ fwks = NoFwks
  /\ classState = [c \in NonNull |-> "none"]
  /\ classBefore = "none"
  /\ dlerror_slot = NullDiagnostic
  /\ diag = NoDiag
  /\ runloop = "idle"
  /\ navidg_cbdct = {}

\* the counters after the foreign calls cs
OpensAfter(cs) == [h \in Libs |-> opens[h] + CountRet(cs, "dlopen", h)]
ClosesAfter(cs) == [h \in Libs |-> closes[h] + CountArg(cs, "dlclose", h)]

(* ------------------------------ __enter__ ------------------------------ *)
\* the address the linker returns for the i-th symbol of EnterSymbols
AddrOf(i) == i

\* the resolver calls of __enter__ from the k-th symbol on; failSym is the
\* symbol whose dlsym returns null (0: none), at which __enter__ stops
RECURSIVE EnterResolve(_, _)
EnterResolve(k, failSym) ==
  IF k > NumSyms THEN [calls |-> << >>, err |-> NoErr]
  ELSE LET addr == IF k = failSym THEN 0 ELSE AddrOf(k)
           r == DLError_wrap(addr, "dlsym")
           cs == ResolverCalls(EnterSymbols[k].lib, EnterSymbols[k].name, addr)
           rest == EnterResolve(k + 1, failSym)
       IN IF r.raised THEN [calls |-> cs, err |-> r.err]
          ELSE [calls |-> cs \o rest.calls, err |-> rest.err]

\* the handle dlsym_factory binds for one dlopen result
dlsym_factory_enter(h) == DLError_handle(h, "dlopen")

DlopenCalls(lib, h) ==
  << Call("dlopen", lib, 0, "", h), Call("dlerror", 0, 0, "", 0) >>

\* the try block of __enter__: h1, h2 are what dlopen returns for libobjc
\* and libSystem; the result is the ExitStack built, the calls made and
\* the error raised, if any
EnterTry(h1, h2, failSym) ==
  LET o1 == dlsym_factory_enter(h1)
      o2 == dlsym_factory_enter(h2)
      s1 == << LibEntry(o1.value, 1) >>
      s2 == s1 \o << LibEntry(o2.value, 2) >>
      c1 == DlopenCalls(LIBOBJC, h1)
      c2 == c1 \o DlopenCalls(LIBSYSTEM, h2)
  IN IF o1.raised THEN [stack |-> << >>, calls |-> c1, err |-> o1.err]
     ELSE IF o2.raised THEN [stack |-> s1, calls |-> c2, err |-> o2.err]
     ELSE [stack |-> s2, calls |-> c2 \o EnterResolve(1, failSym).calls,
           err |-> EnterResolve(1, failSym).err]

\* mutant of the except clause of __enter__: e is raised, the stack is not closed
EnterExcept_noclose(stk, fails, e) ==
  [log |-> << >>, calls |-> << >>, err |-> e]

\* the except clause of __enter__: self._stack.close(), then raise e
EnterExcept(stk, fails, e) == ExitStack_exit(stk, fails, e, 1)

PyNeApple_enter ==
  /\ phase = "new"
  /\ ~init
  /\ \E h1 \in {0, LIBOBJC}, h2 \in {0, LIBSYSTEM}, failSym \in 0..NumSyms,
        fails \in SUBSET (1..2) :
       LET t == EnterTry(h1, h2, failSym)
           u == EnterExcept(t.stack, fails, t.err)
           failed == t.err.type # "none"
           cs == IF failed THEN t.calls \o u.calls ELSE t.calls
       IN /\ fails \subseteq (IF failed THEN DOMAIN t.stack ELSE {})
          /\ init' = TRUE
          /\ phase' = IF failed THEN "enterFailed" ELSE "body"
          /\ stack' = IF failed THEN << >> ELSE t.stack
          /\ registered' = t.stack
          /\ exitLog' = IF failed THEN u.log ELSE << >>
          /\ opens' = OpensAfter(cs)
          /\ closes' = ClosesAfter(cs)
          /\ resolvers' = IF failed THEN {} ELSE {e.target : e \in {t.stack[i] : i \in DOMAIN t.stack}}
          /\ p_NSConcreteMallocBlock' = IF failed THEN 0 ELSE AddrOf(1)
          /\ op' = Op("__enter__", 0, "", FALSE)
          /\ calls' = cs
          /\ result' = 0
          /\ exc' = NoErr
          /\ surfaced' = IF failed THEN u.err ELSE NoErr
          /\ block' = NoBlock
  /\ fwks' = NoFwks
  /\ UNCHANGED ext

(* ------------------------- operations of the body ---------------------- *)
InBody == phase = "body" /\ exc = NoErr
BodyRegs == Len(registered) - 2

\* open_dylib: self._stack.enter_context(self.dlsym_of_lib(path, mode))
open_dylib ==
  /\ InBody
  /\ BodyRegs < MaxBodyRegs
  /\ \E lib \in Libs : \E h \in {0, lib} :
       LET o == dlsym_factory_enter(h)
           cs == DlopenCalls(lib, h)
           e == LibEntry(o.value, Len(registered) + 1)
       IN /\ stack' = IF o.raised THEN stack ELSE Append(stack, e)
          /\ registered' = IF o.raised THEN registered ELSE Append(registered, e)
          /\ resolvers' = IF o.raised THEN resolvers ELSE resolvers \cup {o.value}
          /\ opens' = OpensAfter(cs)
          /\ op' = Op("open_dylib", lib, "", FALSE)
          /\ calls' = cs
          /\ result' = o.value
          /\ exc' = o.err
  /\ UNCHANGED << phase, init, exitLog, closes, p_NSConcreteMallocBlock, surfaced >>
  /\ block' = NoBlock
  /\ UNCHANGED << fwks, ext >>

\* release_on_exit: self._stack.callback(lambda: self.send_message(obj, b'release'))
release_on_exit ==
  /\ InBody
  /\ BodyRegs < MaxBodyRegs
  /\ \E obj \in NonNull :
       LET e == ReleaseEntry(obj, Len(registered) + 1)
       IN /\ stack' = Append(stack, e)
          /\ registered' = Append(registered, e)
          /\ op' = Op("release_on_exit", obj, "", FALSE)
  /\ calls' = << >>
  /\ result' = 0
  /\ UNCHANGED << phase, init, exitLog, opens, closes, resolvers,
                  p_NSConcreteMallocBlock, exc, surfaced >>
  /\ block' = NoBlock
  /\ UNCHANGED << fwks, ext >>

\* a call of a resolver handed out by __enter__ or open_dylib
resolve ==
  /\ InBody
  /\ \E h \in resolvers, addr \in Ptrs :
       LET r == DLError_wrap(addr, "dlsym")
       IN /\ op' = Op("resolve", h, "sym", FALSE)
          /\ calls' = ResolverCalls(h, "sym", addr)
          /\ result' = r.value
          /\ exc' = r.err
  /\ UNCHANGED << phase, init, stack, registered, exitLog, opens, closes, resolvers,
                  p_NSConcreteMallocBlock, surfaced >>
  /\ block' = NoBlock
  /\ UNCHANGED << fwks, ext >>

\* the selectors the body sends: an ordinary one, and `superclass`, which
\* send_message itself sends on the way to a super dispatch
SelNames == {"msg", "superclass"}

SendMessage ==
  /\ InBody
  /\ \E sel_name \in SelNames, obj \in NonNull, is_super \in BOOLEAN, cls \in Ptrs, sup \in Ptrs,
        rSuper \in Rets, rOrd \in Rets :
       LET m == send_message(obj, sel_name, is_super,
                             [cls |-> cls, sup |-> sup, rSuper |-> rSuper, rOrd |-> rOrd])
       IN /\ (~is_super => cls = 0 /\ sup = 0 /\ rSuper = 0)
          /\ op' = Op("send_message", obj, sel_name, is_super)
          /\ calls' = m.calls
          /\ result' = m.ret
  /\ UNCHANGED << phase, init, stack, registered, exitLog, opens, closes, resolvers,
                  p_NSConcreteMallocBlock, exc, surfaced >>
  /\ block' = NoBlock
  /\ UNCHANGED << fwks, ext >>

SafeNewObject ==
  /\ InBody
  /\ \E cls \in NonNull, allocRet \in Ptrs, initRet \in Ptrs :
       LET n == safe_new_object(cls, "init", allocRet, initRet)
       IN /\ op' = Op("safe_new_object", cls, "init", FALSE)
          /\ calls' = n.calls
          /\ result' = n.ret
          /\ exc' = n.err
  /\ UNCHANGED << phase, init, stack, registered, exitLog, opens, closes, resolvers,
                  p_NSConcreteMallocBlock, surfaced >>
  /\ block' = NoBlock
  /\ UNCHANGED << fwks, ext >>

\* make_block: ObjCBlock(self, cb, restype, *argtypes, signature=signature)
make_block ==
  /\ InBody
  /\ \E cb \in NonNull, signature \in {NoSignature, Signature(0), Signature(3)} :
       LET b == ObjCBlock(p_NSConcreteMallocBlock, cb, signature)
       IN /\ block' = b
          /\ exc' = b.err
          /\ op' = Op("make_block", IF signature.present THEN signature.len ELSE -1,
                      "", signature.present)
  /\ calls' = << >>
  /\ result' = 0
  /\ UNCHANGED << phase, init, stack, registered, exitLog, opens, closes, resolvers,
                  p_NSConcreteMallocBlock, surfaced >>
  /\ UNCHANGED << fwks, ext >>

\* the protected body raises an error of its own
BodyRaise ==
  /\ InBody
  /\ exc' = Err("E", "")
  /\ op' = Op("raise", 0, "", FALSE)
  /\ calls' = << >>
  /\ result' = 0
  /\ UNCHANGED << phase, init, stack, registered, exitLog, opens, closes, resolvers,
                  p_NSConcreteMallocBlock, surfaced >>
  /\ block' = NoBlock
  /\ UNCHANGED << fwks, ext >>

(* ------------------------------- __exit__ ------------------------------ *)
\* __exit__: self._stack.__exit__(exc_type, exc_value, traceback)
PyNeApple_exit ==
  /\ phase = "body"
  /\ \E fails \in SUBSET DOMAIN stack :
       LET u == ExitStack_exit(stack, fails, exc, 1)
       IN /\ exitLog' = u.log
          /\ calls' = u.calls
          /\ closes' = ClosesAfter(u.calls)
          /\ surfaced' = u.err
  /\ phase' = "exited"
  /\ stack' = << >>
  /\ op' = Op("__exit__", 0, "", FALSE)
  /\ result' = 0
  /\ UNCHANGED << init, registered, opens, resolvers, p_NSConcreteMallocBlock, exc >>
  /\ block' = NoBlock
  /\ UNCHANGED << fwks, ext >>

(* --------------------------- framework cache --------------------------- *)
\* PyNeApple.path_to_framework(fwk_name): the well-known path of the
\* framework, never empty; the path names one of the extra libraries
path_to_framework(fwk_name) ==
  IF fwk_name = "Foundation" THEN LIBSYSTEM + 1 ELSE LIBSYSTEM + MaxExtraLibs

\* mutant of load_framework_from_path: the lookup in self._fwks is missing
load_framework_uncached(cache, fwk_name, fwk_path, h, id) ==
  LET p == IF fwk_path = 0 THEN path_to_framework(fwk_name) ELSE fwk_path
      o == dlsym_factory_enter(h)
  IN [hit |-> cache[fwk_name] # 0,
      resolver |-> IF o.raised THEN 0 ELSE id,
      calls |-> DlopenCalls(p, h),
      entries |-> IF o.raised THEN << >> ELSE << LibEntry(o.value, id) >>,
      cache |-> IF o.raised THEN cache ELSE [cache EXCEPT ![fwk_name] = id],
      err |-> o.err]

\* load_framework_from_path(fwk_name, fwk_path, mode): fwk_path = 0 stands
\* for an omitted path, h for what dlopen answers if it is called and id for
\* the registration the resolver of a new library gets. A resolver is
\* identified by its registration; the mode only travels to dlopen
load_framework_from_path(cache, fwk_name, fwk_path, h, id) ==
  LET p == IF fwk_path = 0 THEN path_to_framework(fwk_name) ELSE fwk_path
      o == dlsym_factory_enter(h)
  IN IF p = 0
     THEN [hit |-> FALSE, resolver |-> 0, calls |-> << >>, entries |-> << >>,
           cache |-> cache, err |-> Err("ValueError", "load_framework_from_path")]
     ELSE IF cache[fwk_name] # 0
     THEN [hit |-> TRUE, resolver |-> cache[fwk_name], calls |-> << >>,
           entries |-> << >>, cache |-> cache, err |-> NoErr]
     ELSE [hit |-> FALSE,
           resolver |-> IF o.raised THEN 0 ELSE id,
           calls |-> DlopenCalls(p, h),
           entries |-> IF o.raised THEN << >> ELSE << LibEntry(o.value, id) >>,
           cache |-> IF o.raised THEN cache ELSE [cache EXCEPT ![fwk_name] = id],
           err |-> o.err]

\* a call of load_framework_from_path in the body
LoadFramework ==
  /\ InBody
  /\ \E fwk_name \in FwkNames, fwk_path \in {0} \cup Libs :
       /\ fwks[fwk_name] # 0 \/ BodyRegs < MaxBodyRegs
       /\ \E h \in {0, IF fwk_path = 0 THEN path_to_framework(fwk_name) ELSE fwk_path} :
            LET r == load_framework_from_path(fwks, fwk_name, fwk_path, h,
                                              Len(registered) + 1)
            IN /\ fwks' = r.cache
               /\ stack' = stack \o r.entries
               /\ registered' = registered \o r.entries
               /\ resolvers' = resolvers \cup {r.entries[i].target : i \in DOMAIN r.entries}
               /\ opens' = OpensAfter(r.calls)
               /\ calls' = r.calls
               /\ result' = r.resolver
               /\ exc' = r.err
               /\ op' = Op("load_framework_from_path", fwk_path, fwk_name, r.hit)
  /\ block' = NoBlock
  /\ UNCHANGED << phase, init, exitLog, closes, p_NSConcreteMallocBlock, surfaced, ext >>

(* ----------------------- calls and library lifetime -------------------- *)
\* safe_objc_getClass(name): r is what objc_getClass answers
safe_objc_getClass(name, r) ==
  [calls |-> << Call("objc_getClass", 0, 0, name, r) >>,
   ret |-> r,
   err |-> IF r = 0 THEN Err("RuntimeError", "objc_getClass") ELSE NoErr]

\* the entry points stay bound on the instance once __enter__ succeeded;
\* no method of the bridge looks at the state of the scope before it calls
\* one, so a call can be made in the body and after __exit__ alike
CanCall == (phase = "body" /\ exc = NoErr) \/ phase = "exited"

SafeObjcGetClass ==
  /\ CanCall
  /\ \E r \in Ptrs :
       LET g == safe_objc_getClass("NSObject", r)
       IN /\ op' = Op("safe_objc_getClass", 0, "NSObject", phase = "exited")
          /\ calls' = g.calls
          /\ result' = g.ret
          /\ exc' = IF phase = "body" THEN g.err ELSE exc
  /\ block' = NoBlock
  /\ UNCHANGED << phase, init, stack, registered, exitLog, opens, closes, resolvers,
                  p_NSConcreteMallocBlock, surfaced, fwks, ext >>

\* send_message on the instance after its scope was left
AfterExitSendMessage ==
  /\ phase = "exited"
  /\ \E obj \in NonNull, rOrd \in Rets :
       LET m == send_message(obj, "msg", FALSE, PlainEnv(rOrd))
       IN /\ op' = Op("send_message", obj, "msg", TRUE)
          /\ calls' = m.calls
          /\ result' = m.ret
  /\ block' = NoBlock
  /\ UNCHANGED << phase, init, stack, registered, exitLog, opens, closes, resolvers,
                  p_NSConcreteMallocBlock, exc, surfaced, fwks, ext >>

\* a call of a resolver the caller kept after the scope was left
AfterExitResolve ==
  /\ phase = "exited"
  /\ \E h \in resolvers, addr \in Ptrs :
       /\ op' = Op("resolve", h, "sym", TRUE)
       /\ calls' = ResolverCalls(h, "sym", addr)
       /\ result' = DLError_wrap(addr, "dlsym").value
  /\ block' = NoBlock
  /\ UNCHANGED << phase, init, stack, registered, exitLog, opens, closes, resolvers,
                  p_NSConcreteMallocBlock, exc, surfaced, fwks, ext >>

(* ----------------------------- class builder --------------------------- *)
\* the entry points __enter__ binds for building classes are plain foreign
\* functions: the bridge passes the class pointer through and hands the
\* runtime's answer back
ClassMutations == {"class_addMethod", "class_addIvar", "class_addProtocol"}

\* the pointers objc_allocateClassPair may return: null, or a class that
\* does not exist yet
AllocResults == {0} \cup {c \in NonNull : classState[c] = "none"}

\* the classes the runtime knows: the pointers the class operations are
\* called with
Classes == {c \in NonNull : classState[c] # "none"}

objc_allocateClassPair ==
  /\ InBody
  /\ \E r \in AllocResults :
       /\ classState' = IF r = 0 THEN classState ELSE [classState EXCEPT ![r] = "unregistered"]
       /\ op' = Op("objc_allocateClassPair", r, "", r # 0)
       /\ calls' = << Call("objc_allocateClassPair", 0, 0, "", r) >>
       /\ result' = r
  /\ classBefore' = "none"
  /\ block' = NoBlock
  /\ UNCHANGED << phase, init, stack, registered, exitLog, opens, closes, resolvers,
                  p_NSConcreteMallocBlock, exc, surfaced, fwks, dlVars, loopVars >>

\* one call of class_addMethod / class_addIvar / class_addProtocol on cls:
\* the c_byte the runtime answers (ok) is the result; nothing is checked or
\* raised
ClassMutation(fn, cls, ok) ==
  /\ classBefore' = classState[cls]
  /\ op' = Op(fn, cls, "", ok # 0)
  /\ calls' = << Call(fn, cls, 0, "", ok) >>
  /\ result' = ok
  /\ block' = NoBlock
  /\ UNCHANGED << phase, init, stack, registered, exitLog, opens, closes, resolvers,
                  p_NSConcreteMallocBlock, exc, surfaced, fwks, classState, dlVars, loopVars >>

class_addMethod ==
  /\ InBody
  /\ \E cls \in Classes, ok \in {0, 1} : ClassMutation("class_addMethod", cls, ok)

class_addIvar ==
  /\ InBody
  /\ \E cls \in Classes, ok \in {0, 1} : ClassMutation("class_addIvar", cls, ok)

class_addProtocol ==
  /\ InBody
  /\ \E cls \in Classes, ok \in {0, 1} : ClassMutation("class_addProtocol", cls, ok)

\* objc_registerClassPair(cls): no result
objc_registerClassPair ==
  /\ InBody
  /\ \E cls \in Classes :
       /\ classBefore' = classState[cls]
       /\ classState' = [classState EXCEPT ![cls] = "registered"]
       /\ op' = Op("objc_registerClassPair", cls, "", FALSE)
       /\ calls' = << Call("objc_registerClassPair", cls, 0, "", 0) >>
  /\ result' = 0
  /\ block' = NoBlock
  /\ UNCHANGED << phase, init, stack, registered, exitLog, opens, closes, resolvers,
                  p_NSConcreteMallocBlock, exc, surfaced, fwks, dlVars, loopVars >>

\* the construction of PyForeignClass_NavigationDelegate: r is what
\* objc_allocateClassPair returns, m and q what class_addMethod and
\* class_addProtocol answer, proto what objc_getProtocol returns
build_class(r, m, proto, q) ==
  IF r = 0
  THEN [calls |-> << Call("objc_allocateClassPair", 0, 0, "", r) >>,
        err |-> Err("RuntimeError", "objc_allocateClassPair"),
        registered |-> FALSE]
  ELSE [calls |-> << Call("objc_allocateClassPair", 0, 0, "", r),
                     Call("sel_registerName", 0, 0, "webView:didFinishNavigation:", 0),
                     Call("class_addMethod", r, 0,
                          sel_registerName("webView:didFinishNavigation:"), m),
                     Call("objc_getProtocol", 0, 0, "", proto),
                     Call("class_addProtocol", r, proto, "", q),
                     Call("objc_registerClassPair", r, 0, "", 0) >>,
        err |-> NoErr,
        registered |-> TRUE]

\* the class is built once, before any other class exists
BuildNaviDelegate ==
  /\ InBody
  /\ \A c \in NonNull : classState[c] = "none"
  /\ \E r \in AllocResults, m \in {0, 1}, proto \in Ptrs, q \in {0, 1} :
       LET b == build_class(r, m, proto, q)
       IN /\ classState' = IF b.registered THEN [classState EXCEPT ![r] = "registered"]
                           ELSE classState
          /\ op' = Op("build_class", r, "", b.registered)
          /\ calls' = b.calls
          /\ result' = r
          /\ exc' = b.err
  /\ classBefore' = "none"
  /\ block' = NoBlock
  /\ UNCHANGED << phase, init, stack, registered, exitLog, opens, closes, resolvers,
                  p_NSConcreteMallocBlock, surfaced, fwks, dlVars, loopVars >>

(* ---------------------- the linker's error channel -------------------- *)
\* DLError.UNKNOWN_ERROR: a text no linker call produces
UNKNOWN_ERROR == Diagnostic("text", "<unknown error>", 0)

\* fn_dlerror(): hands back the content of the slot and clears the slot
fn_dlerror(slot) == [value |-> slot, slot |-> NullDiagnostic]

\* dlopen and dlsym fail with a null result, dlclose with a nonzero one
dl_failed(fn, ret) == IF fn = "dlclose" THEN ret # 0 ELSE ret = 0

\* what the linker's call fn(arg) with result ret leaves behind: a failing
\* call leaves a diagnostic of the given kind, if it has one to give
dl_produced(fn, arg, ret, kind) ==
  IF dl_failed(fn, ret) /\ kind # "null" THEN Diagnostic(kind, fn, arg)
                                           ELSE NullDiagnostic

\* the slot after the linker's call: overwritten by a diagnostic, else as
\* it was
dl_call(slot, fn, arg, ret, kind) ==
  LET d == dl_produced(fn, arg, ret, kind)
  IN IF d = NullDiagnostic THEN slot ELSE d

\* mutant of the argument order: dlerror() is read before the call is made
dlerror_then_call(slot, fn, arg, ret, kind) ==
  LET e == fn_dlerror(slot)
  IN [err |-> e.value, slot |-> dl_call(e.slot, fn, arg, ret, kind)]

\* the arguments of DLError.handle, evaluated left to right: the linker's
\* call first, fn_dlerror() right after it
call_then_dlerror(slot, fn, arg, ret, kind) ==
  LET e == fn_dlerror(dl_call(slot, fn, arg, ret, kind))
  IN [err |-> e.value, slot |-> e.slot]

\* the diagnostic part of DLError.__str__: self.err or DLError.UNKNOWN_ERROR
DLError_str(err) == IF err.kind = "text" THEN err ELSE UNKNOWN_ERROR

\* one step of a dlsym_factory context: the call, the read of the slot, and
\* DLError.handle on the (negated, for dlclose) result
FactoryStep(fn, arg, ret, kind) ==
  LET r == call_then_dlerror(dlerror_slot, fn, arg, ret, kind)
      h == DLError_handle(IF fn = "dlclose" THEN PyNot(ret) ELSE ret, fn)
  IN /\ dlerror_slot' = r.slot
     /\ diag' = IF h.raised
                THEN [raised |-> TRUE, fname |-> fn, arg |-> arg, err |-> r.err,
                      made |-> dl_produced(fn, arg, ret, kind),
                      text |-> DLError_str(r.err)]
                ELSE NoDiag
     /\ calls' = << Call(fn, arg, 0, "", ret), Call("dlerror", 0, 0, "", 0) >>
     /\ result' = h.value
     /\ exc' = h.err
     /\ op' = Op(fn, arg, "", h.raised)

\* entering a dlsym_factory context (lines 112-114)
factory_open ==
  /\ \E lib \in Libs : \E h \in {0, lib}, kind \in DiagKinds :
       /\ opens[lib] = closes[lib]
       /\ opens[lib] < MaxOpens
       /\ FactoryStep("dlopen", lib, h, kind)
       /\ opens' = OpensAfter(<< Call("dlopen", lib, 0, "", h) >>)
  /\ block' = NoBlock
  /\ UNCHANGED << phase, init, stack, registered, exitLog, closes, resolvers,
                  p_NSConcreteMallocBlock, surfaced, fwks, classVars, loopVars >>

\* calling the resolver the context yielded (line 116)
factory_resolve ==
  /\ \E h \in Libs, addr \in Ptrs, kind \in DiagKinds :
       /\ opens[h] > closes[h]
       /\ FactoryStep("dlsym", h, addr, kind)
  /\ block' = NoBlock
  /\ UNCHANGED << phase, init, stack, registered, exitLog, opens, closes, resolvers,
                  p_NSConcreteMallocBlock, surfaced, fwks, classVars, loopVars >>

\* leaving the context: the `finally` clause (lines 117-120)
factory_close ==
  /\ \E h \in Libs, closeRet \in {0, -1}, kind \in DiagKinds :
       /\ opens[h] > closes[h]
       /\ FactoryStep("dlclose", h, closeRet, kind)
       /\ closes' = ClosesAfter(<< Call("dlclose", h, 0, "", closeRet) >>)
  /\ block' = NoBlock
  /\ UNCHANGED << phase, init, stack, registered, exitLog, opens, resolvers,
                  p_NSConcreteMallocBlock, surfaced, fwks, classVars, loopVars >>

(* ------------------------------ run loop ------------------------------- *)
\* Python's None as a dictionary key, apart from every pointer value
PyNone == 0 - 1

\* NotNull_VoidP(x).value: c_void_p hands back None for a null pointer and
\* the cast to int changes nothing
NotNull_VoidP_value(x) == IF x = 0 THEN PyNone ELSE x

\* the names bound when completion_handler is entered: its parameters.
\* jsresult_id and jsresult_err are assigned in its body, hence local to it
CompletionLocals == {"self", "id_result", "err"}

\* completion_handler(self, id_result, err): line 737 reads jsresult_id and
\* jsresult_err; when a name is not bound the read raises and the rest of
\* the body (the two copies, their registrations and lstop(mainloop)) is
\* skipped
completion_handler_body(bound, id_result, err) ==
  IF {"jsresult_id", "jsresult_err"} \subseteq bound
  THEN [err |-> NoErr,
        calls |-> send_message(id_result, "copy", FALSE, PlainEnv(id_result)).calls
                  \o send_message(err, "copy", FALSE, PlainEnv(err)).calls
                  \o << Call("CFRunLoopStop", 0, 0, "", 0) >>,
        stop |-> TRUE]
  ELSE [err |-> Err("UnboundLocalError", "completion_handler"),
        calls |-> << >>, stop |-> FALSE]

\* cb_navi_done: lstop(mainloop)
cb_navi_done == [calls |-> << Call("CFRunLoopStop", 0, 0, "", 0) >>, stop |-> TRUE]

\* PFC_NaviDelegate.webView0_didFinishNavigation1:
\* if cb := navidg_cbdct.get(rp_navi or 0): cb()
didFinishNavigation(cbdct, rp_navi) ==
  IF rp_navi \in cbdct THEN cb_navi_done ELSE [calls |-> << >>, stop |-> FALSE]

\* the web view the script created
p_webview == 1

\* lines 484-493: the loadHTMLString send answers the navigation rp, the
\* callback is filed under NotNull_VoidP(rp).value and the loop is pumped
loadHTMLString ==
  /\ InBody
  /\ runloop = "idle"
  /\ navidg_cbdct = {}
  /\ \E rp \in Ptrs :
       LET m == send_message(p_webview, "loadHTMLString:baseURL:", FALSE, PlainEnv(rp))
       IN /\ navidg_cbdct' = navidg_cbdct \cup {NotNull_VoidP_value(m.ret)}
          /\ calls' = m.calls \o << Call("CFRunLoopRun", 0, 0, "", 0) >>
          /\ op' = Op("loadHTMLString", m.ret, "", FALSE)
          /\ result' = m.ret
  /\ runloop' = "running"
  /\ block' = NoBlock
  /\ UNCHANGED << phase, init, stack, registered, exitLog, opens, closes, resolvers,
                  p_NSConcreteMallocBlock, exc, surfaced, fwks, classVars, dlVars >>

\* the runtime calls the delegate method for a navigation rp_navi while the
\* first pump runs
webView0_didFinishNavigation1 ==
  /\ runloop = "running"
  /\ block = NoBlock
  /\ \E rp_navi \in Ptrs :
       LET d == didFinishNavigation(navidg_cbdct, rp_navi)
       IN /\ runloop' = IF d.stop THEN "stopped" ELSE runloop
          /\ calls' = d.calls
          /\ op' = Op("webView0_didFinishNavigation1", rp_navi, "", d.stop)
  /\ result' = 0
  /\ UNCHANGED << phase, init, stack, registered, exitLog, opens, closes, resolvers,
                  p_NSConcreteMallocBlock, exc, surfaced, block, fwks, classVars,
                  dlVars, navidg_cbdct >>

\* lrun() returns once the loop was asked to stop
lrun_return ==
  /\ runloop = "stopped"
  /\ runloop' = "idle"
  /\ op' = Op("lrun", 0, "", block # NoBlock)
  /\ calls' = << >>
  /\ result' = 0
  /\ UNCHANGED << phase, init, stack, registered, exitLog, opens, closes, resolvers,
                  p_NSConcreteMallocBlock, exc, surfaced, block, fwks, classVars,
                  dlVars, navidg_cbdct >>

\* lines 744-752: the block around completion_handler is built, handed to
\* callAsyncJavaScript and the loop is pumped
callAsyncJavaScript ==
  /\ InBody
  /\ runloop = "idle"
  /\ navidg_cbdct # {}
  /\ block = NoBlock
  /\ \E cb \in NonNull :
       LET b == ObjCBlock(p_NSConcreteMallocBlock, cb, NoSignature)
           m == send_message(p_webview,
                  "callAsyncJavaScript:arguments:inFrame:inContentWorld:completionHandler:",
                  FALSE, PlainEnv(0))
       IN /\ block' = b
          /\ calls' = m.calls \o << Call("CFRunLoopRun", 0, 0, "", 0) >>
          /\ op' = Op("callAsyncJavaScript", cb, "", FALSE)
  /\ runloop' = "running"
  /\ result' = 0
  /\ UNCHANGED << phase, init, stack, registered, exitLog, opens, closes, resolvers,
                  p_NSConcreteMallocBlock, exc, surfaced, fwks, classVars, dlVars,
                  navidg_cbdct >>

\* the runtime invokes the block while the second pump runs; an error
\* raised in a ctypes callback is reported and dropped, it does not reach
\* the script
completion_handler ==
  /\ runloop = "running"
  /\ block # NoBlock
  /\ \E id_result \in Ptrs, err \in Ptrs :
       LET c == completion_handler_body(CompletionLocals, id_result, err)
       IN /\ runloop' = IF c.stop THEN "stopped" ELSE runloop
          /\ calls' = c.calls
          /\ op' = Op("completion_handler", id_result, c.err.type, c.stop)
          /\ result' = err
  /\ UNCHANGED << phase, init, stack, registered, exitLog, opens, closes, resolvers,
                  p_NSConcreteMallocBlock, exc, surfaced, block, fwks, classVars,
                  dlVars, navidg_cbdct >>

\* the scope and its libraries: entering, registering release actions,
\* resolving symbols, failing, leaving
Next ==
  \/ PyNeApple_enter
  \/ open_dylib
  \/ release_on_exit
  \/ resolve
  \/ BodyRaise
  \/ PyNeApple_exit

Spec == Init /\ [][Next]_vars

\* the scope with a body that dispatches messages, constructs objects and
\* builds blocks
DispatchNext ==
  \/ PyNeApple_enter
  \/ SendMessage
  \/ SafeNewObject
  \/ make_block
  \/ BodyRaise
  \/ PyNeApple_exit

DispatchSpec == Init /\ [][DispatchNext]_vars

\* the scope with a body that builds classes
ClassNext ==
  \/ PyNeApple_enter
  \/ objc_allocateClassPair
  \/ class_addMethod
  \/ class_addIvar
  \/ class_addProtocol
  \/ objc_registerClassPair
  \/ BuildNaviDelegate
  \/ PyNeApple_exit

ClassSpec == Init /\ [][ClassNext]_vars

\* the contexts of dlsym_factory on their own: opening, resolving, closing
DiagNext ==
  \/ factory_open
  \/ factory_resolve
  \/ factory_close

DiagSpec == Init /\ [][DiagNext]_vars

\* the two pumps of the main run loop and the callbacks that end them
RunLoopNext ==
  \/ PyNeApple_enter
  \/ loadHTMLString
  \/ webView0_didFinishNavigation1
  \/ lrun_return
  \/ callAsyncJavaScript
  \/ completion_handler

RunLoopSpec == Init /\ [][RunLoopNext]_vars

\* the scope with a body that loads frameworks
FrameworkNext ==
  \/ PyNeApple_enter
  \/ LoadFramework
  \/ BodyRaise
  \/ PyNeApple_exit

FrameworkSpec == Init /\ [][FrameworkNext]_vars

\* the scope, the calls made inside it and the calls made once it is left
LifetimeNext ==
  \/ PyNeApple_enter
  \/ release_on_exit
  \/ resolve
  \/ SafeObjcGetClass
  \/ PyNeApple_exit
  \/ AfterExitSendMessage
  \/ AfterExitResolve

LifetimeSpec == Init /\ [][LifetimeNext]_vars

(* ============================== properties ============================= *)
Reverse(sq) == [i \in 1..Len(sq) |-> sq[Len(sq) + 1 - i]]

\* the positions of a call log at which fn was called
CallsOf(cs, fn) == {i \in DOMAIN cs : cs[i].fn = fn}

\* C1: when the scope exits, every release action registered on it (by
\* __enter__, open_dylib and release_on_exit, in any interleaving) has run
\* exactly once and in strict reverse order of registration, whether the
\* body completed or raised.
C1_ReverseOrderExactlyOnce ==
  phase = "exited" =>
    /\ exitLog = Reverse(registered)
    /\ \A i \in DOMAIN registered :
         Cardinality({j \in DOMAIN exitLog : exitLog[j].id = registered[i].id}) = 1

\* a failing body with a release callback registered before a library
C1_Witness ==
  /\ phase = "exited"
  /\ exc.type = "E"
  /\ Len(registered) = 4
  /\ registered[3].kind = "release"
  /\ registered[4].kind = "lib"
  /\ exitLog[1].id = 4

\* the message sends of the last operation that carry the selector sel
DispatchesOf(cs, sel) ==
  {i \in DOMAIN cs : cs[i].fn \in {"objc_msgSend", "objc_msgSendSuper"} /\ cs[i].sel = sel}

\* C2: a send_message call delivers the caller's selector through exactly
\* one dispatch entry point: objc_msgSendSuper when is_super is set (and
\* the call returns what objc_msgSendSuper returned), objc_msgSend otherwise.
C2_OneDispatchEntryPoint ==
  op.name = "send_message" =>
    LET d == DispatchesOf(calls, sel_registerName(op.sel))
    IN /\ Cardinality(d) = 1
       /\ \A i \in d :
            /\ calls[i].fn = (IF op.flag THEN "objc_msgSendSuper" ELSE "objc_msgSend")
            /\ result = calls[i].ret

\* C3: in safe_new_object, when alloc returns an object and the
\* initializer returns null, a release message is sent to the object alloc
\* returned before the error is raised.
C3_ReleaseOfPreInitObject ==
  op.name = "safe_new_object" =>
    \A i \in DispatchesOf(calls, "alloc"), j \in DispatchesOf(calls, op.sel) :
      (calls[i].ret # 0 /\ calls[j].ret = 0) =>
        /\ exc.type = "RuntimeError"
        /\ \E k \in DispatchesOf(calls, "release") : k > j /\ calls[k].a = calls[i].ret

\* C4: building a block with an empty signature (supplied, of length zero)
\* is rejected with a configuration error and yields no block.
C4_EmptySignatureRejected ==
  (op.name = "make_block" /\ op.flag /\ op.a = 0) =>
    /\ ~block.built
    /\ exc.type = "ConfigurationError"

\* C5: a dlopen that yields a null handle always fails with DLError before
\* any resolver is handed out: no resolver and no release action is bound
\* to a null handle, no dlclose is attempted on one, and the operation that
\* saw the null handle raised DLError.
C5_NullHandleIsLinkError ==
  /\ 0 \notin resolvers
  /\ \A i \in DOMAIN registered : registered[i].kind = "lib" => registered[i].target # 0
  /\ \A i \in CallsOf(calls, "dlclose") : calls[i].a # 0
  /\ (\E i \in CallsOf(calls, "dlopen") : calls[i].ret = 0) =>
       /\ op.name = "open_dylib" => (exc = Err("DLError", "dlopen") /\ result = 0)
       /\ op.name = "__enter__" => (phase = "enterFailed" /\ surfaced.type = "DLError")

\* open_dylib met a null handle
C5_Witness ==
  /\ op.name = "open_dylib"
  /\ \E i \in CallsOf(calls, "dlopen") : calls[i].ret = 0
  /\ exc.type = "DLError"

\* C6: a resolver never returns a null address as success: when dlsym
\* returns null the call raises DLError (operation dlsym), and when it
\* returns a non-null address that address is returned.
C6_ResolveNeverNull ==
  /\ op.name = "resolve" =>
       \A i \in CallsOf(calls, "dlsym") :
         /\ calls[i].ret = 0 => (exc = Err("DLError", "dlsym") /\ result = 0)
         /\ calls[i].ret # 0 => (exc = NoErr /\ result = calls[i].ret)
  /\ op.name = "__enter__" =>
       ((\E i \in CallsOf(calls, "dlsym") : calls[i].ret = 0) =>
          (phase = "enterFailed" /\ surfaced.type = "DLError"))

\* one resolver call that met a null address
C6_Witness ==
  /\ op.name = "resolve"
  /\ \E i \in CallsOf(calls, "dlsym") : calls[i].ret = 0
  /\ exc.type = "DLError"

\* the libraries registered on the scope with handle h
LibRegs(h) == {i \in DOMAIN registered : registered[i].kind = "lib" /\ registered[i].target = h}

\* C7: once the scope has exited, normally or with an error, dlclose has
\* been called exactly once for every successful dlopen of the scope.
C7_EveryLibraryClosedOnce ==
  phase = "exited" =>
    \A h \in Libs :
      /\ closes[h] = opens[h]
      /\ opens[h] = Cardinality(LibRegs(h))
      /\ \A i \in LibRegs(h) :
           Cardinality({j \in DOMAIN exitLog : exitLog[j] = registered[i]}) = 1

\* a failing scope that opened a third library besides the two of __enter__
C7_Witness ==
  /\ phase = "exited"
  /\ exc.type # "none"
  /\ \E h \in ExtraLibs : opens[h] = 1 /\ closes[h] = 1
  /\ closes[LIBOBJC] = 1
  /\ closes[LIBSYSTEM] = 1

\* C8: when the body raises E and a release action fails during the
\* unwinding, the error that surfaces from the scope is still E.
C8_OriginalErrorSurfaces ==
  (phase = "exited" /\ exc.type = "E") => surfaced = exc

\* C9: when __enter__ fails after opening one or more libraries, every
\* library it opened has been closed when the error surfaces.
C9_EnterFailureClosesLibraries ==
  phase = "enterFailed" =>
    /\ surfaced.type # "none"
    /\ stack = << >>
    /\ \A h \in Libs : closes[h] = opens[h]
    /\ \A i \in CallsOf(calls, "dlopen") :
         calls[i].ret # 0 => \E j \in CallsOf(calls, "dlclose") : j > i /\ calls[j].a = calls[i].ret

\* __enter__ failed on a symbol, after both libraries were opened
C9_Witness ==
  /\ phase = "enterFailed"
  /\ opens[LIBOBJC] = 1
  /\ opens[LIBSYSTEM] = 1
  /\ \E i \in CallsOf(calls, "dlsym") : calls[i].ret = 0

\* C10: with is_super set, send_message looks up the receiver's class,
\* then fetches that class's superclass, and only then calls
\* objc_msgSendSuper, with the receiver and the fetched superclass as the
\* two words of its effective receiver.
C10_SuperSendOrder ==
  (op.name = "send_message" /\ op.flag) =>
    /\ Cardinality(CallsOf(calls, "objc_msgSendSuper")) = 1
    /\ \A k \in CallsOf(calls, "objc_msgSendSuper") :
         \E i \in CallsOf(calls, "object_getClass"), j \in DispatchesOf(calls, "superclass") :
           /\ i < j
           /\ j < k
           /\ calls[i].a = op.a
           /\ calls[j].fn = "objc_msgSend"
           /\ calls[j].a = calls[i].ret
           /\ calls[k].a = op.a
           /\ calls[k].b = calls[j].ret
           /\ calls[k].sel = sel_registerName(op.sel)

\* a super send whose class and superclass are distinct non-null pointers
C10_Witness ==
  /\ op.name = "send_message"
  /\ op.flag
  /\ \E i \in CallsOf(calls, "object_getClass"), k \in CallsOf(calls, "objc_msgSendSuper") :
       /\ calls[i].ret # 0
       /\ calls[k].b # 0
       /\ calls[k].b # calls[i].ret

\* C11: a runtime-created class is never mutated (class_addMethod,
\* class_addIvar, class_addProtocol) after objc_registerClassPair was called
\* on it, and it is registered at most once.
C11_NoMutationAfterRegistration ==
  /\ op.name \in ClassMutations => classBefore # "registered"
  /\ op.name = "objc_registerClassPair" => classBefore # "registered"

\* the positions of a call log at which a class mutation was called
MutationCalls(cs) == {i \in DOMAIN cs : cs[i].fn \in ClassMutations}

\* C12: when the runtime rejects a class mutation the operation fails with
\* a configuration error at that call and the class is not registered; when
\* the class pair cannot be allocated, construction fails before any
\* mutation is attempted.
C12_RejectedMutationFails ==
  /\ op.name = "build_class" =>
       /\ \A i \in MutationCalls(calls) :
            calls[i].ret = 0 =>
              /\ exc.type = "ConfigurationError"
              /\ \A j \in DOMAIN calls : j <= i
       /\ \A i \in CallsOf(calls, "objc_allocateClassPair") :
            calls[i].ret = 0 => (exc.type # "none" /\ MutationCalls(calls) = {})
  /\ op.name \in ClassMutations => (result = 0 => exc.type = "ConfigurationError")


\* the linker's own entry points
DlFunctions == {"dlopen", "dlsym", "dlclose"}

\* C13: the DLError raised for a failing dlopen, dlsym or dlclose carries
\* the diagnostic that very call left in the last-error slot: dlerror() is
\* the next linker call after it, the slot is empty again once the step is
\* over, and the text falls back to '<unknown error>' when the call left no
\* diagnostic
C13_DiagnosticOfTheFailingCall ==
  /\ \A i \in DOMAIN calls : calls[i].fn \in DlFunctions =>
       (i < Len(calls) /\ calls[i + 1].fn = "dlerror")
  /\ dlerror_slot = NullDiagnostic
  /\ diag.raised =>
       /\ diag.err = diag.made
       /\ diag.err # NullDiagnostic => (diag.err.fn = diag.fname /\ diag.err.arg = diag.arg)
       /\ diag.text = IF diag.made.kind = "text" THEN diag.made ELSE UNKNOWN_ERROR

\* a dlclose that failed and left a text, after the dlopen of its library
C13_Witness ==
  /\ diag.raised
  /\ diag.fname = "dlclose"
  /\ diag.made.kind = "text"
  /\ diag.text = diag.made
  /\ closes[diag.arg] = 1

\* C14: every invocation of a completion closure reaches its request to
\* stop the run loop: after completion_handler ran, and after the
\* navigation delegate ran for the navigation loadHTMLString started,
\* CFRunLoopStop was called and the pump is about to return
C14_ClosureRequestsStop ==
  /\ op.name = "completion_handler" =>
       (CallsOf(calls, "CFRunLoopStop") # {} /\ runloop = "stopped")
  /\ (op.name = "webView0_didFinishNavigation1" /\ op.a \in navidg_cbdct) =>
       (CallsOf(calls, "CFRunLoopStop") # {} /\ runloop = "stopped")

\* the registrations made for frameworks: those after the two of __enter__
FrameworkRegs == {i \in DOMAIN registered : i > 2}

\* C16: within one entered scope a framework name is opened at most once:
\* a call for a name already cached makes no foreign call, opens nothing,
\* registers nothing and returns the cached resolver, whatever path it is
\* given; every cached name owns exactly one close action of its own, and a
\* load that failed leaves the name uncached
C16_FrameworkOpenedOnce ==
  /\ \A n \in FwkNames : fwks[n] # 0 =>
       (fwks[n] \in FrameworkRegs /\ registered[fwks[n]].kind = "lib")
  /\ \A n1, n2 \in FwkNames : (fwks[n1] # 0 /\ fwks[n1] = fwks[n2]) => n1 = n2
  /\ Cardinality(FrameworkRegs) = Cardinality({n \in FwkNames : fwks[n] # 0})
  /\ op.name = "load_framework_from_path" =>
       /\ op.flag => (calls = << >> /\ exc = NoErr /\ result = fwks[op.sel])
       /\ exc # NoErr => (result = 0 /\ (~op.flag => fwks[op.sel] = 0))

\* a second load of a cached name under another path: no dlopen, the
\* resolver of the first load
C16_Witness ==
  /\ op.name = "load_framework_from_path"
  /\ op.flag
  /\ op.a # 0
  /\ op.a # registered[fwks[op.sel]].target
  /\ calls = << >>
  /\ result = fwks[op.sel]

\* the entry points of the Objective-C runtime, all resolved from libobjc
ObjcFunctions == {EnterSymbols[k].name : k \in {j \in 1..NumSyms : EnterSymbols[j].lib = LIBOBJC}}

\* the library a foreign call goes through (0: the linker itself)
LibOf(c) == IF c.fn \in ObjcFunctions THEN LIBOBJC
            ELSE IF c.fn = "dlsym" THEN c.a
            ELSE 0

\* how often the library h is open right before the call at position i of
\* the last operation: dlopen minus dlclose calls made up to there
OpenCountAt(h, i) ==
  LET rest == SubSeq(calls, i, Len(calls))
  IN (opens[h] - CountRet(rest, "dlopen", h)) - (closes[h] - CountArg(rest, "dlclose", h))

\* C15: no foreign call goes through a closed library: every call of an
\* entry point of the Objective-C runtime, and every dlsym on a handle, is
\* made while the library it belongs to is open
C15_NoCallThroughClosedLibrary ==
  \A i \in DOMAIN calls : LibOf(calls[i]) # 0 => OpenCountAt(LibOf(calls[i]), i) > 0
====
